---- MODULE Spec2Model ----
(***************************************************************************)
(* Flow2Client (src/src/flow_bt/client.py): the BLE session controller of  *)
(* the Flow 2 air-quality monitor.  One caller drives the public           *)
(* coroutines sequentially; every `await` of a transport operation is a    *)
(* suspension point at which keep-alive tasks, notifications and           *)
(* connection loss interleave.  Code between two awaits is one step.       *)
(***************************************************************************)
EXTENDS Integers, Sequences, FiniteSets, TLC

\* ---------------------------------------------------------------- bounds
\* open connections whose BleakClient the session has dropped
MaxLeaked == 1
\* live keep-alive tasks the session no longer refers to
MaxOrphans == 1
\* notifications recorded in the delivery history
MaxTrace == 2
\* largest offset handed to decode_history_timestamp
MaxOffset == 2

\* ------------------------------------------------------------- constants
LIVE_DATA_PACKET_SIZE == 20

Observers == {"on_data", "on_history"}
\* a packet of len bytes: the four bytes w at offset pos, the filler f + i elsewhere
Packet(len, pos, w, f) ==
    [i \in 1..len |-> IF i > pos /\ i <= pos + 4 THEN w[i - pos] ELSE (f + i) % 256]

\* the notifications the transport delivers: an unknown packet, two live
\* readings (35.5 and -infinity at offset 8) and a history block starting
\* with the little-endian timestamp 100
Notifications ==
    { Packet(LIVE_DATA_PACKET_SIZE - 1, 8, <<0, 0, 14, 66>>, 0),
      Packet(LIVE_DATA_PACKET_SIZE, 8, <<0, 0, 14, 66>>, 0),
      Packet(LIVE_DATA_PACKET_SIZE, 8, <<0, 0, 128, 255>>, 7),
      Packet(LIVE_DATA_PACKET_SIZE + 5, 0, <<100, 0, 0, 0>>, 0) }

\* the battery characteristic as read: empty, or one byte
BatteryReads == { << >>, <<0>>, <<87>> }

\* str(e) of the exceptions the transport raises, as word sequences
Messages == { <<"Authentication", "rejected">>, <<"Device", "not", "found">> }

\* where a live keep-alive task is suspended
TaskPcs == {"new", "writing", "sleeping"}

VARIABLES
    client,          \* self.client: "None" or "BleakClient"
    conn,            \* transport side of self.client: link, authenticated, subscribed
    leaked,          \* open connections of BleakClients self.client no longer refers to,
                     \* counted by whether the data channel is subscribed
    is_streaming,    \* self.is_streaming
    keep_alive_task, \* self._keep_alive_task: "None", or where that task is
    orphans,         \* live tasks self._keep_alive_task no longer refers to, by position
    data_callback,   \* self._data_callback: "None" or an observer
    pc,              \* where the caller's coroutine is suspended ("idle": no call in progress)
    op,              \* the public coroutine the caller is inside
    err,             \* the exception caught in connect(), << >> if none
    lastReturn,      \* how the last public call ended (none while one is suspended)
    ev,              \* the step just taken: the transport operation it issued, the
                     \* bytes the transport handed over, the observer calls it made
                     \* and the value it returned
    history,         \* when switched on: the notifications delivered and the observer
                     \* calls made so far
    codec            \* protocol.py: an input, and what the decoders returned for it

vars == << client, conn, leaked, is_streaming, keep_alive_task, orphans, data_callback,
           pc, op, err, lastReturn, ev, history, codec >>

session == << client, is_streaming, keep_alive_task, data_callback >>

\* Optional[...]: None, or a record of the value's fields
None == [none |-> TRUE]
\* Optional[int]: None
NoValue == 0 - 1
NoCall == << >>
Ev(a, i) == [act |-> a, io |-> i, data |-> << >>, calls |-> NoCall, val |-> NoValue]
NoReturn == [op |-> "none", res |-> "none"]

Down == [st |-> "down", authed |-> FALSE, subscribed |-> FALSE]
Up == [st |-> "open", authed |-> FALSE, subscribed |-> FALSE]

\* `self.client and self.client.is_connected`
Connected == client # "None" /\ conn.st = "open"

\* "Authentication" in str(e)
HasAuthentication(e) == \E i \in 1..Len(e) : e[i] = "Authentication"

LeakCount == leaked[TRUE] + leaked[FALSE]
OrphanCount == orphans["new"] + orphans["writing"] + orphans["sleeping"]
\* keep-alive tasks that have not finished
LiveTasks == OrphanCount + (IF keep_alive_task \in TaskPcs THEN 1 ELSE 0)

\* protocol.py at rest: no input, nothing decoded
NoInput == [data |-> << >>, offset |-> 0, live |-> None, stamp |-> None,
            didLive |-> FALSE, didStamp |-> FALSE]

\* Flow2Client.__init__ (lines 47-57)
SessionInit ==
    /\ client = "None"
    /\ conn = Down
    /\ leaked = [s \in BOOLEAN |-> 0]
    /\ is_streaming = FALSE
    /\ keep_alive_task = "None"
    /\ orphans = [p \in TaskPcs |-> 0]
    /\ data_callback = "None"
    /\ pc = "idle"
    /\ op = "none"
    /\ err = << >>
    /\ lastReturn = NoReturn
    /\ ev = Ev("init", "none")

Init ==
    /\ SessionInit
    /\ history = [on |-> FALSE, delivered |-> << >>, calls |-> << >>]
    /\ codec = NoInput

\* the public coroutine `o` ends with result r (a return value or the exception raised)
Return(o, r, a) ==
    /\ pc' = "idle"
    /\ op' = "none"
    /\ lastReturn' = [op |-> o, res |-> r]
    /\ ev' = Ev(a, "none")

\* the public coroutine `o` returns the value v computed from the bytes d it read
ReturnValue(o, r, a, d, v) ==
    /\ pc' = "idle"
    /\ op' = "none"
    /\ lastReturn' = [op |-> o, res |-> r]
    /\ ev' = [Ev(a, "none") EXCEPT !.data = d, !.val = v]

\* the public coroutine `o` suspends at `await <transport operation i>`
Await(o, p, a, i) ==
    /\ pc' = p
    /\ op' = o
    /\ lastReturn' = NoReturn
    /\ ev' = Ev(a, i)

\* ------------------------------------------------------------ protocol.py
\* struct.unpack('<f', b)[0]: the float whose IEEE-754 single-precision word has
\* b[1] as least significant byte, as sign, biased exponent and fraction; every
\* NaN word yields the one Python value nan
NaN == [none |-> FALSE, sign |-> 0, exponent |-> 255, mantissa |-> 4194304]
unpack_f(b) ==
    IF Len(b) # 4
    THEN None
    ELSE LET e == (b[4] % 128) * 2 + b[3] \div 128
             m == (b[3] % 128) * 65536 + b[2] * 256 + b[1]
         IN IF e = 255 /\ m # 0
            THEN NaN
            ELSE [none |-> FALSE, sign |-> b[4] \div 128, exponent |-> e, mantissa |-> m]

\* lines 8-24: data[8:12] of a 20-byte packet as a float, None otherwise
decode_live_pm_value_at7(data) ==
    IF Len(data) # 20
    THEN None
    ELSE unpack_f(SubSeq(data, 8, 11))

decode_live_pm_value(data) ==
    IF Len(data) # 20
    THEN None
    ELSE unpack_f(SubSeq(data, 9, 12))

\* struct.unpack('<I', b)[0]: an unsigned 32-bit integer, kept as two 16-bit
\* halves so that no intermediate value leaves the 32-bit signed range
unpack_I(b) ==
    IF Len(b) # 4
    THEN None
    ELSE [none |-> FALSE, hi |-> b[4] * 256 + b[3], lo |-> b[2] * 256 + b[1]]

\* datetime.fromtimestamp(t): the calendar day (counted from 1970-01-01) and the
\* second of that day; 675 * 65536 seconds are 512 days
fromtimestamp(t) ==
    LET low == (t.hi % 675) * 65536 + t.lo
    IN [none |-> FALSE,
        days |-> (t.hi \div 675) * 512 + low \div 86400,
        secs |-> low % 86400]

\* decode_history_timestamp that reads data[0:4] whatever the offset
decode_history_timestamp_at0(data, offset) ==
    IF Len(data) < offset + 4
    THEN None
    ELSE LET t == unpack_I(SubSeq(data, 1, 4))
         IN IF t.none THEN None ELSE fromtimestamp(t)

\* lines 27-44: data[offset:offset+4] as a datetime, None if data is too short
decode_history_timestamp(data, offset) ==
    IF Len(data) < offset + 4
    THEN None
    ELSE LET t == unpack_I(SubSeq(data, offset + 1, offset + 4))
         IN IF t.none THEN None ELSE fromtimestamp(t)

\* ------------------------------------------------------ transport calls
\* the BleakClient call behind each value of ev.io: the method, the
\* characteristic, the bytes written and the `response` argument
GattCall(m, u, v, r) == [method |-> m, uuid |-> u, value |-> v, response |-> r]
TransportCall(io) ==
    CASE io = "connect" -> GattCall("connect", "none", "none", FALSE)
      [] io = "disconnect" -> GattCall("disconnect", "none", "none", FALSE)
      [] io = "auth_write" -> GattCall("write_gatt_char", "UUID_AUTH", "AUTH_KEY", TRUE)
      [] io = "battery_read" -> GattCall("read_gatt_char", "UUID_BATTERY", "none", FALSE)
      [] io = "subscribe" -> GattCall("start_notify", "UUID_DATA", "none", FALSE)
      [] io = "activate_write" ->
            GattCall("write_gatt_char", "UUID_COMMAND", "CMD_ACTIVATE", TRUE)
      [] io = "unsubscribe" -> GattCall("stop_notify", "UUID_DATA", "none", FALSE)
      [] io = "fetch_write" ->
            GattCall("write_gatt_char", "UUID_COMMAND", "CMD_FETCH_HISTORY", TRUE)
      [] io = "keep_alive_write" ->
            GattCall("write_gatt_char", "UUID_COMMAND", "CMD_ACTIVATE", FALSE)
      [] OTHER -> GattCall("none", "none", "none", FALSE)

\* ------------------------------------------------------------- connect()
\* lines 65-68: build the BleakClient, rebind self.client, await client.connect()
connect ==
    /\ pc = "idle"
    /\ conn.st = "open" => LeakCount < MaxLeaked
    /\ client' = "BleakClient"
    /\ conn' = Down
    /\ leaked' = IF conn.st = "open"
                 THEN [leaked EXCEPT ![conn.subscribed] = @ + 1]
                 ELSE leaked
    /\ Await("connect", "connecting", "connect", "connect")
    /\ UNCHANGED << is_streaming, keep_alive_task, orphans, data_callback, err >>
    /\ UNCHANGED << history, codec >>

\* lines 76-79: the except clause up to `await self.client.disconnect()`
connect_except(e, a) ==
    /\ err' = e
    /\ Await("connect", "cleanup", a, "disconnect")

\* lines 68-73: client.connect() completes; on success the key is written
connect_connected ==
    /\ pc = "connecting"
    /\ \/ /\ conn' = Up
          /\ Await("connect", "auth", "connect_connected", "auth_write")
          /\ UNCHANGED err
       \/ \* the failure may leave the link half-open
          /\ conn' \in {Down, Up}
          /\ \E e \in Messages : connect_except(e, "connect_failed")
    /\ UNCHANGED << client, leaked, is_streaming, keep_alive_task, orphans, data_callback >>
    /\ UNCHANGED << history, codec >>

\* lines 73-74: the confirmed write of the key completes
connect_authed ==
    /\ pc = "auth"
    /\ \/ /\ conn.st = "open"
          /\ conn' = [conn EXCEPT !.authed = TRUE]
          /\ Return("connect", "ok", "connect_authed")
          /\ UNCHANGED err
       \/ /\ conn' = conn
          /\ \E e \in Messages : connect_except(e, "auth_failed")
    /\ UNCHANGED << client, leaked, is_streaming, keep_alive_task, orphans, data_callback >>
    /\ UNCHANGED << history, codec >>

\* lines 79-82: the cleanup disconnect completes, then the fault is raised;
\* a failure of that disconnect leaves the except clause as it is
connect_cleanup ==
    /\ pc = "cleanup"
    /\ \/ /\ conn' = Down
          /\ Return("connect",
                    IF HasAuthentication(err) THEN "AuthenticationError" ELSE "ConnectionError",
                    "connect_cleanup")
       \/ /\ conn.st = "open"
          /\ conn' \in {conn, Down}
          /\ Return("connect", "TransportError", "connect_cleanup_failed")
    /\ err' = << >>
    /\ UNCHANGED << client, leaked, is_streaming, keep_alive_task, orphans, data_callback >>
    /\ UNCHANGED << history, codec >>

\* ---------------------------------------------------- stop_stream() tail
\* disconnect() lines 89-92, reached with the link record cn
disconnect_tail(a, cn) ==
    /\ conn' = cn
    /\ IF client # "None" /\ cn.st = "open"
       THEN Await("disconnect", "closing", a, "disconnect")
       ELSE Return("disconnect", "ok", a)

\* line 163: stop_stream returns, to its caller or into disconnect()
stop_return(o, a, cn) ==
    IF o = "stop_stream"
    THEN conn' = cn /\ Return("stop_stream", "ok", a)
    ELSE disconnect_tail(a, cn)

\* lines 157-159: after the task has been awaited
stop_unsubscribe(o, a) ==
    IF Connected
    THEN conn' = conn /\ Await(o, "unsub", a, "unsubscribe")
    ELSE stop_return(o, a, conn)

\* lines 148-159, entered with the flag set; o is the public call in progress
stop_stream_body(o, a) ==
    /\ is_streaming' = FALSE
    /\ IF keep_alive_task \in TaskPcs
       THEN \* cancel() a live task, then suspend in `await self._keep_alive_task`
            /\ conn' = conn
            /\ Await(o, "await_task", a, "none")
            /\ UNCHANGED keep_alive_task
       ELSE \* no task, or a finished one: the await does not suspend
            /\ keep_alive_task' = "None"
            /\ stop_unsubscribe(o, a)

\* stop_stream without lines 145-146
stop_stream_noguard ==
    /\ pc = "idle"
    /\ stop_stream_body("stop_stream", "stop_stream")
    /\ UNCHANGED << client, leaked, orphans, data_callback, err >>
    /\ UNCHANGED << history, codec >>

\* lines 143-159 up to the first suspension
stop_stream ==
    /\ pc = "idle"
    /\ IF ~is_streaming
       THEN /\ Return("stop_stream", "ok", "stop_stream_noop")
            /\ UNCHANGED << is_streaming, keep_alive_task, conn >>
       ELSE stop_stream_body("stop_stream", "stop_stream")
    /\ UNCHANGED << client, leaked, orphans, data_callback, err >>
    /\ UNCHANGED << history, codec >>

\* lines 152-159: the awaited task has finished (it swallowed the cancellation)
stop_stream_awaited ==
    /\ pc = "await_task"
    /\ keep_alive_task = "done"
    /\ keep_alive_task' = "None"
    /\ stop_unsubscribe(op, "stop_stream_awaited")
    /\ UNCHANGED << client, leaked, is_streaming, orphans, data_callback, err >>
    /\ UNCHANGED << history, codec >>

\* lines 159-163: stop_notify completes; a failure is logged and swallowed
stop_stream_unsubscribed ==
    /\ pc = "unsub"
    /\ \/ /\ conn.st = "open"
          /\ stop_return(op, "stop_stream_unsubscribed", [conn EXCEPT !.subscribed = FALSE])
       \/ stop_return(op, "unsubscribe_failed", conn)
    /\ UNCHANGED << client, leaked, is_streaming, keep_alive_task, orphans, data_callback, err >>
    /\ UNCHANGED << history, codec >>

\* ---------------------------------------------------------- disconnect()
\* disconnect that closes self.client without the is_connected test of line 89
disconnect_unchecked ==
    /\ pc = "idle"
    /\ IF is_streaming
       THEN stop_stream_body("disconnect", "disconnect")
       ELSE /\ conn' = conn
            /\ IF client # "None"
               THEN Await("disconnect", "closing", "disconnect", "disconnect")
               ELSE Return("disconnect", "ok", "disconnect")
            /\ UNCHANGED << is_streaming, keep_alive_task >>
    /\ UNCHANGED << client, leaked, orphans, data_callback, err >>
    /\ UNCHANGED << history, codec >>

\* lines 84-91 up to the first suspension
disconnect ==
    /\ pc = "idle"
    /\ IF is_streaming
       THEN stop_stream_body("disconnect", "disconnect")
       ELSE /\ disconnect_tail("disconnect", conn)
            /\ UNCHANGED << is_streaming, keep_alive_task >>
    /\ UNCHANGED << client, leaked, orphans, data_callback, err >>
    /\ UNCHANGED << history, codec >>

\* lines 91-92: client.disconnect() completes; its failure is not caught
disconnect_closed ==
    /\ pc = "closing"
    /\ \/ /\ conn' = Down
          /\ Return("disconnect", "ok", "disconnect_closed")
       \/ /\ conn.st = "open"
          /\ conn' \in {conn, Down}
          /\ Return("disconnect", "TransportError", "disconnect_failed")
    /\ UNCHANGED << client, leaked, is_streaming, keep_alive_task, orphans, data_callback, err >>
    /\ UNCHANGED << history, codec >>

\* -------------------------------------------------------- start_stream()
\* start_stream that binds the observer and sets the flag before lines 127-128
start_stream_binds_first(o) ==
    /\ pc = "idle"
    /\ data_callback' = o
    /\ is_streaming' = TRUE
    /\ IF ~Connected
       THEN Return("start_stream", "NotConnectedError", "start_stream")
       ELSE Await("start_stream", "sub", "start_stream", "subscribe")
    /\ UNCHANGED << client, conn, leaked, keep_alive_task, orphans, err >>
    /\ UNCHANGED << history, codec >>

\* lines 127-134 up to `await start_notify`
start_stream(o) ==
    /\ pc = "idle"
    /\ IF ~Connected
       THEN /\ Return("start_stream", "NotConnectedError", "start_stream")
            /\ UNCHANGED << is_streaming, data_callback >>
       ELSE /\ data_callback' = o
            /\ is_streaming' = TRUE
            /\ Await("start_stream", "sub", "start_stream", "subscribe")
    /\ UNCHANGED << client, conn, leaked, keep_alive_task, orphans, err >>
    /\ UNCHANGED << history, codec >>

\* lines 134-137: start_notify completes, then the activation write is awaited
start_stream_subscribed ==
    /\ pc = "sub"
    /\ \/ /\ conn.st = "open"
          /\ conn' = [conn EXCEPT !.subscribed = TRUE]
          /\ Await("start_stream", "activate", "start_stream_subscribed", "activate_write")
       \/ /\ conn' = conn
          /\ Return("start_stream", "TransportError", "subscribe_failed")
    /\ UNCHANGED << client, leaked, is_streaming, keep_alive_task, orphans, data_callback, err >>
    /\ UNCHANGED << history, codec >>

\* lines 137-141: the activation write completes, then the task is created and
\* self._keep_alive_task rebound; a live task it referred to runs on unreferenced
start_stream_activated ==
    /\ pc = "activate"
    /\ \/ /\ conn.st = "open"
          /\ keep_alive_task \in TaskPcs => OrphanCount < MaxOrphans
          /\ orphans' = IF keep_alive_task \in TaskPcs
                        THEN [orphans EXCEPT ![keep_alive_task] = @ + 1]
                        ELSE orphans
          /\ keep_alive_task' = "new"
          /\ Return("start_stream", "ok", "start_stream_activated")
       \/ /\ UNCHANGED << keep_alive_task, orphans >>
          /\ Return("start_stream", "TransportError", "activate_failed")
    /\ UNCHANGED << client, conn, leaked, is_streaming, data_callback, err >>
    /\ UNCHANGED << history, codec >>

\* ------------------------------------------------------- fetch_history()
\* fetch_history without lines 174-175
fetch_history_unguarded ==
    /\ pc = "idle"
    /\ Await("fetch_history", "fetch", "fetch_history", "fetch_write")
    /\ UNCHANGED << session, conn, leaked, orphans, err >>
    /\ UNCHANGED << history, codec >>

\* lines 174-178 up to the await
fetch_history ==
    /\ pc = "idle"
    /\ IF ~Connected
       THEN Return("fetch_history", "NotConnectedError", "fetch_history")
       ELSE Await("fetch_history", "fetch", "fetch_history", "fetch_write")
    /\ UNCHANGED << session, conn, leaked, orphans, err >>
    /\ UNCHANGED << history, codec >>

\* line 178: the confirmed write completes
fetch_history_written ==
    /\ pc = "fetch"
    /\ \/ /\ conn.st = "open"
          /\ Return("fetch_history", "ok", "fetch_history_written")
       \/ Return("fetch_history", "TransportError", "fetch_failed")
    /\ UNCHANGED << session, conn, leaked, orphans, err >>
    /\ UNCHANGED << history, codec >>

\* -------------------------------------------------------- read_battery()
\* lines 103-107 up to the await
read_battery ==
    /\ pc = "idle"
    /\ IF ~Connected
       THEN Return("read_battery", "NotConnectedError", "read_battery")
       ELSE Await("read_battery", "battery", "read_battery", "battery_read")
    /\ UNCHANGED << session, conn, leaked, orphans, err >>
    /\ UNCHANGED << history, codec >>

\* read_battery without the except clause of lines 111-113
read_battery_read_raises ==
    /\ pc = "battery"
    /\ \/ \E data \in BatteryReads :
             /\ conn.st = "open"
             /\ IF Len(data) > 0
                THEN ReturnValue("read_battery", "level", "read_battery_read", data, data[1])
                ELSE ReturnValue("read_battery", "IndexError", "battery_empty", data, NoValue)
       \/ Return("read_battery", "TransportError", "battery_failed")
    /\ UNCHANGED << session, conn, leaked, orphans, err >>
    /\ UNCHANGED << history, codec >>

\* lines 107-113: the read completes; any failure becomes None
read_battery_read ==
    /\ pc = "battery"
    /\ \/ \E data \in BatteryReads :
             /\ conn.st = "open"
             /\ IF Len(data) > 0
                THEN ReturnValue("read_battery", "level", "read_battery_read", data, data[1])
                ELSE \* data[0] raises IndexError
                     ReturnValue("read_battery", "None", "battery_empty", data, NoValue)
       \/ Return("read_battery", "None", "battery_failed")
    /\ UNCHANGED << session, conn, leaked, orphans, err >>
    /\ UNCHANGED << history, codec >>

\* ---------------------------------------------------- _keep_alive_loop()
\* A task is named by whether self._keep_alive_task refers to it (held) and
\* by where it is suspended (p).
TaskAt(held, p) == IF held THEN keep_alive_task = p ELSE orphans[p] > 0

\* the task (held, p) moves on to q
TaskMoves(held, p, q) ==
    IF held
    THEN keep_alive_task' = q /\ UNCHANGED orphans
    ELSE /\ orphans' = [x \in TaskPcs |->
                          orphans[x] - (IF x = p THEN 1 ELSE 0) + (IF x = q THEN 1 ELSE 0)]
         /\ UNCHANGED keep_alive_task

\* stop_stream line 150: cancel() was called on the task and is being awaited
CancelPending(held) == held /\ pc = "await_task"

\* _keep_alive_loop as `while True` with the cancellation swallowed inside the loop
keep_alive_loop_forever(held, p) ==
    /\ p \in {"new", "sleeping"}
    /\ TaskAt(held, p)
    /\ IF Connected
       THEN TaskMoves(held, p, "writing") /\ ev' = Ev("keep_alive_loop", "keep_alive_write")
       ELSE TaskMoves(held, p, "sleeping") /\ ev' = Ev("keep_alive_loop", "none")
    /\ UNCHANGED << client, conn, leaked, is_streaming, data_callback, pc, op, err,
                    lastReturn >>
    /\ UNCHANGED << history, codec >>

\* _keep_alive_loop without the test of line 203
keep_alive_loop_unchecked(held, p) ==
    /\ p \in {"new", "sleeping"}
    /\ TaskAt(held, p)
    /\ IF CancelPending(held)
       THEN TaskMoves(held, p, "done") /\ ev' = Ev("keep_alive_cancelled", "none")
       ELSE IF ~is_streaming
       THEN TaskMoves(held, p, "done") /\ ev' = Ev("keep_alive_exit", "none")
       ELSE TaskMoves(held, p, "writing") /\ ev' = Ev("keep_alive_loop", "keep_alive_write")
    /\ UNCHANGED << client, conn, leaked, is_streaming, data_callback, pc, op, err,
                    lastReturn >>
    /\ UNCHANGED << history, codec >>

\* lines 201-209: the task runs from its creation or from the end of a sleep
\* up to its next await; a pending cancel() raises CancelledError instead
keep_alive_loop(held, p) ==
    /\ p \in {"new", "sleeping"}
    /\ TaskAt(held, p)
    /\ IF CancelPending(held)
       THEN TaskMoves(held, p, "done") /\ ev' = Ev("keep_alive_cancelled", "none")
       ELSE IF ~is_streaming
       THEN TaskMoves(held, p, "done") /\ ev' = Ev("keep_alive_exit", "none")
       ELSE IF Connected
       THEN TaskMoves(held, p, "writing") /\ ev' = Ev("keep_alive_loop", "keep_alive_write")
       ELSE TaskMoves(held, p, "sleeping") /\ ev' = Ev("keep_alive_loop", "none")
    /\ UNCHANGED << client, conn, leaked, is_streaming, data_callback, pc, op, err,
                    lastReturn >>
    /\ UNCHANGED << history, codec >>

\* _keep_alive_loop that logs a failed write and goes round the loop again
keep_alive_written_retry(held) ==
    /\ TaskAt(held, "writing")
    /\ IF CancelPending(held)
       THEN /\ TaskMoves(held, "writing", "done")
            /\ ev' = Ev("keep_alive_cancelled", "none")
       ELSE \/ /\ TaskMoves(held, "writing", "sleeping")
               /\ ev' = Ev("keep_alive_written", "none")
            \/ /\ TaskMoves(held, "writing", "sleeping")
               /\ ev' = Ev("keep_alive_failed", "none")
    /\ UNCHANGED << client, conn, leaked, is_streaming, data_callback, pc, op, err,
                    lastReturn >>
    /\ UNCHANGED << history, codec >>

\* lines 204-212: the unconfirmed write completes, fails or is cancelled
keep_alive_written(held) ==
    /\ TaskAt(held, "writing")
    /\ IF CancelPending(held)
       THEN /\ TaskMoves(held, "writing", "done")
            /\ ev' = Ev("keep_alive_cancelled", "none")
            /\ UNCHANGED is_streaming
       ELSE \/ /\ TaskMoves(held, "writing", "sleeping")
               /\ ev' = Ev("keep_alive_written", "none")
               /\ UNCHANGED is_streaming
            \/ /\ TaskMoves(held, "writing", "done")
               /\ is_streaming' = FALSE
               /\ ev' = Ev("keep_alive_failed", "none")
    /\ UNCHANGED << client, conn, leaked, data_callback, pc, op, err, lastReturn >>
    /\ UNCHANGED << history, codec >>

\* ------------------------------------------------ _notification_handler()
\* an observer call: the tag, and the value (live) or the bytes (history) passed
Call(k, o, v, b) == [kind |-> k, obs |-> o, pm |-> v, raw |-> b]

\* the handler's lines 187-197 with the history branch tested first and from 20 bytes on
dispatch_history_first(data) ==
    IF Len(data) >= LIVE_DATA_PACKET_SIZE
    THEN IF data_callback # "None"
         THEN << Call("history", data_callback, None, data) >>
         ELSE NoCall
    ELSE NoCall

\* lines 187-197: the observer calls made for the notification data
dispatch(data) ==
    IF Len(data) = LIVE_DATA_PACKET_SIZE
    THEN LET pm_value == decode_live_pm_value(data)
         IN IF data_callback # "None" /\ ~pm_value.none
            THEN << Call("live", data_callback, pm_value, << >>) >>
            ELSE NoCall
    ELSE IF Len(data) > LIVE_DATA_PACKET_SIZE
    THEN IF data_callback # "None"
         THEN << Call("history", data_callback, None, data) >>
         ELSE NoCall
    ELSE NoCall

\* the delivery history holds at most MaxTrace notifications
HistoryOpen == history.on => Len(history.delivered) < MaxTrace

\* the delivery history after the notification data and the observer calls c
Delivered(data, c) ==
    IF history.on
    THEN [history EXCEPT !.delivered = Append(@, data), !.calls = @ \o c]
    ELSE history

\* _notification_handler that stops the stream on a packet of unknown size
notification_handler_stops(data) ==
    /\ conn.subscribed \/ leaked[TRUE] > 0
    /\ HistoryOpen
    /\ ev' = [Ev("notification_handler", "none") EXCEPT !.data = data, !.calls = dispatch(data)]
    /\ history' = Delivered(data, dispatch(data))
    /\ is_streaming' = (is_streaming /\ Len(data) >= LIVE_DATA_PACKET_SIZE)
    /\ UNCHANGED << client, keep_alive_task, data_callback, conn, leaked, orphans, pc, op,
                    err, lastReturn, codec >>

\* _notification_handler that calls the observer only while the flag is set
notification_handler_gated(data) ==
    /\ conn.subscribed \/ leaked[TRUE] > 0
    /\ HistoryOpen
    /\ ev' = [Ev("notification_handler", "none") EXCEPT
                 !.data = data, !.calls = IF is_streaming THEN dispatch(data) ELSE NoCall]
    /\ history' = Delivered(data, IF is_streaming THEN dispatch(data) ELSE NoCall)
    /\ UNCHANGED << session, conn, leaked, orphans, pc, op, err, lastReturn, codec >>

\* _notification_handler whose observer calls overtake the ones made before
notification_handler_lifo(data) ==
    /\ conn.subscribed \/ leaked[TRUE] > 0
    /\ HistoryOpen
    /\ ev' = [Ev("notification_handler", "none") EXCEPT !.data = data, !.calls = dispatch(data)]
    /\ history' = IF history.on
                  THEN [history EXCEPT !.delivered = Append(@, data),
                                       !.calls = dispatch(data) \o @]
                  ELSE history
    /\ UNCHANGED << session, conn, leaked, orphans, pc, op, err, lastReturn, codec >>

\* lines 180-197: one notification delivered by a subscribed connection; the
\* observer is called before the handler returns
notification_handler(data) ==
    /\ conn.subscribed \/ leaked[TRUE] > 0
    /\ HistoryOpen
    /\ ev' = [Ev("notification_handler", "none") EXCEPT !.data = data, !.calls = dispatch(data)]
    /\ history' = Delivered(data, dispatch(data))
    /\ UNCHANGED << session, conn, leaked, orphans, pc, op, err, lastReturn, codec >>

\* ------------------------------------------------------------ environment
\* the link of self.client drops: is_connected becomes False
connection_lost ==
    /\ conn.st = "open"
    /\ conn' = Down
    /\ ev' = Ev("connection_lost", "none")
    /\ UNCHANGED << session, leaked, orphans, pc, op, err, lastReturn >>
    /\ UNCHANGED << history, codec >>

\* the link of a dropped BleakClient drops
leaked_connection_lost(s) ==
    /\ leaked[s] > 0
    /\ leaked' = [leaked EXCEPT ![s] = @ - 1]
    /\ ev' = Ev("leaked_connection_lost", "none")
    /\ UNCHANGED << session, conn, orphans, pc, op, err, lastReturn >>
    /\ UNCHANGED << history, codec >>

Next ==
    \/ connect
    \/ connect_connected
    \/ connect_authed
    \/ connect_cleanup
    \/ disconnect
    \/ disconnect_closed
    \/ \E o \in Observers : start_stream(o)
    \/ start_stream_subscribed
    \/ start_stream_activated
    \/ stop_stream
    \/ stop_stream_awaited
    \/ stop_stream_unsubscribed
    \/ fetch_history
    \/ fetch_history_written
    \/ read_battery
    \/ read_battery_read
    \/ \E held \in BOOLEAN, p \in TaskPcs : keep_alive_loop(held, p)
    \/ \E held \in BOOLEAN : keep_alive_written(held)
    \/ \E data \in Notifications : notification_handler(data)
    \/ connection_lost
    \/ \E s \in BOOLEAN : leaked_connection_lost(s)

Spec == Init /\ [][Next]_vars

\* ------------------------------------------------------------- scheduling
\* the event loop runs every task that can run: a keep-alive task whose sleep
\* is over, or that was cancelled, is resumed, and a write in flight completes
\* or fails
KeepAliveRuns ==
    \/ \E held \in BOOLEAN, p \in TaskPcs : keep_alive_loop(held, p)
    \/ \E held \in BOOLEAN : keep_alive_written(held)

\* the task awaited by stop_stream has finished, or the stop_notify or the
\* client.disconnect() in flight completes or fails: the caller is resumed
TeardownResumes ==
    \/ stop_stream_awaited
    \/ stop_stream_unsubscribed
    \/ disconnect_closed

SpecLive == Spec /\ WF_vars(KeepAliveRuns) /\ WF_vars(TeardownResumes)

\* ------------------------------------------------ the order of dispatch
\* the session as connect() leaves it on success, with the delivery history
\* switched on; the caller starts and stops the stream while keep-alive tasks
\* and notifications interleave
InitDispatch ==
    /\ client = "BleakClient"
    /\ conn = [Up EXCEPT !.authed = TRUE]
    /\ leaked = [s \in BOOLEAN |-> 0]
    /\ is_streaming = FALSE
    /\ keep_alive_task = "None"
    /\ orphans = [p \in TaskPcs |-> 0]
    /\ data_callback = "None"
    /\ pc = "idle"
    /\ op = "none"
    /\ err = << >>
    /\ lastReturn = [op |-> "connect", res |-> "ok"]
    /\ ev = Ev("connect_authed", "none")
    /\ history = [on |-> TRUE, delivered |-> << >>, calls |-> << >>]
    /\ codec = NoInput

NextDispatch ==
    \/ \E o \in Observers : start_stream(o)
    \/ start_stream_subscribed
    \/ start_stream_activated
    \/ stop_stream
    \/ stop_stream_awaited
    \/ stop_stream_unsubscribed
    \/ \E held \in BOOLEAN, p \in TaskPcs : keep_alive_loop(held, p)
    \/ \E held \in BOOLEAN : keep_alive_written(held)
    \/ \E data \in Notifications : notification_handler(data)

SpecDispatch == InitDispatch /\ [][NextDispatch]_vars

\* ------------------------------------------------- protocol.py on its own
\* the packets handed to the decoders: lengths around 0, 4 and 20, a word
\* placed at the offsets read, and two fillers for the other bytes
CodecLens == {0, 3, 4, 5, 6, LIVE_DATA_PACKET_SIZE - 1, LIVE_DATA_PACKET_SIZE,
              LIVE_DATA_PACKET_SIZE + 1, LIVE_DATA_PACKET_SIZE + 5}
Words == { <<0, 0, 14, 66>>, <<100, 0, 0, 0>>, <<255, 255, 255, 255>>, <<0, 0, 128, 255>>,
           <<1, 2, 3, 4>>, <<0, 0, 192, 127>>, <<255, 255, 127, 0>>, <<0, 0, 0, 128>> }
CodecInputs ==
    { Packet(len, pos, w, f) : len \in CodecLens, pos \in (0..MaxOffset) \cup {8},
                               w \in Words, f \in {0, 7} }

InitCodec ==
    /\ SessionInit
    /\ history = [on |-> FALSE, delivered |-> << >>, calls |-> << >>]
    /\ codec \in { [NoInput EXCEPT !.data = d, !.offset = o] :
                      d \in CodecInputs, o \in 0..MaxOffset }

\* a call of decode_live_pm_value(data)
decode_live ==
    /\ ~codec.didLive
    /\ codec' = [codec EXCEPT !.live = decode_live_pm_value(codec.data), !.didLive = TRUE]
    /\ UNCHANGED << session, conn, leaked, orphans, pc, op, err, lastReturn, ev, history >>

\* a call of decode_history_timestamp(data, offset)
decode_stamp ==
    /\ ~codec.didStamp
    /\ codec' = [codec EXCEPT !.stamp = decode_history_timestamp(codec.data, codec.offset),
                              !.didStamp = TRUE]
    /\ UNCHANGED << session, conn, leaked, orphans, pc, op, err, lastReturn, ev, history >>

NextCodec ==
    \/ decode_live
    \/ decode_stamp

SpecCodec == InitCodec /\ [][NextCodec]_vars

\* ======================================================= session states
\* spec.md 4.2: the states of the session, read off the transport and the flag
Disconnected == ~Connected /\ ~is_streaming
Authenticated == Connected /\ ~is_streaming
Streaming == Connected /\ is_streaming

\* ================================================================ claims

\* C1: whenever no public call is in progress, the streaming flag is true
\* iff a keep-alive task is running and the notification channel is subscribed.
C1_StreamingIffTaskAndSubscribed ==
    pc = "idle" => (is_streaming <=> (LiveTasks > 0 /\ conn.subscribed))

\* C2: the number of live keep-alive tasks never exceeds one, in particular
\* after start_stream was called twice with no stop_stream in between.
C2_AtMostOneKeepAliveTask == LiveTasks <= 1

\* C3: after stop_stream or disconnect has returned, no keep-alive task of the
\* session is still alive.
C3_NoTaskAfterTeardown ==
    (pc = "idle" /\ lastReturn.op \in {"stop_stream", "disconnect"} /\ lastReturn.res = "ok")
        => LiveTasks = 0

\* C4: disconnect, however it ends, leaves the session Disconnected: the
\* transport connection closed and the streaming flag false.
C4_DisconnectEndsDisconnected ==
    (pc = "idle" /\ lastReturn.op = "disconnect") => Disconnected

\* C5: stop_stream and disconnect never signal an error to their caller.
C5_TeardownNeverRaises ==
    lastReturn.op \in {"stop_stream", "disconnect"} => lastReturn.res = "ok"

\* C6: a connect that succeeds leaves the session connected and authenticated;
\* a connect that fails leaves the transport connection closed and raises
\* AuthenticationError when the failure names an authentication rejection and
\* ConnectionError otherwise.
C6_ConnectOutcome ==
    [][ (op = "connect" /\ pc' = "idle") =>
            IF pc = "auth"
            THEN lastReturn'.res = "ok" /\ Connected' /\ conn'.authed
            ELSE /\ ~Connected'
                 /\ lastReturn'.res = IF HasAuthentication(err)
                                      THEN "AuthenticationError"
                                      ELSE "ConnectionError" ]_vars

\* C7: a failed keep-alive write clears the streaming flag, ends the task that
\* issued it and ends no public call; no keep-alive write is issued while the
\* flag is clear, and only start_stream sets the flag again (no retry within
\* the streaming episode).
C7_KeepAliveFailureStops ==
    [][ /\ ev'.act = "keep_alive_failed" =>
              /\ ~is_streaming'
              /\ LiveTasks' = LiveTasks - 1
              /\ pc' = pc /\ op' = op /\ lastReturn' = lastReturn
        /\ ev'.io = "keep_alive_write" => is_streaming
        /\ (~is_streaming /\ is_streaming') => ev'.act = "start_stream" ]_vars

C7_Witness == ev.act = "keep_alive_failed" /\ ~is_streaming

\* C8 as stated: every step from Streaming to Authenticated is a stop_stream
\* call (made directly or from disconnect).
C8_OnlyStopStreamLeavesStreaming ==
    [][ (Streaming /\ Authenticated') => ev'.act \in {"stop_stream", "disconnect"} ]_vars

\* C8 amended: every step from Streaming to Authenticated is a stop_stream call
\* (made directly or from disconnect) or a failed keep-alive write; no dispatch
\* step and no other keep-alive step takes it.
C8_LeavesStreamingByStopOrFailure ==
    [][ (Streaming /\ Authenticated') =>
            ev'.act \in {"stop_stream", "disconnect", "keep_alive_failed"} ]_vars

C8_Witness == Authenticated /\ ev.act = "keep_alive_failed" /\ pc = "idle"

\* C9: no open transport connection exists that the session no longer holds.
C9_NoLeakedConnection == LeakCount = 0

\* C10: stop_stream called on a session that is not streaming returns without
\* error, issues no transport operation and changes no session state; and the
\* flag is clear whenever stop_stream has returned, so a second call is that no-op.
C10_StopStreamIdempotent ==
    [][ /\ (pc = "idle" /\ ~is_streaming /\ ev'.act \in {"stop_stream", "stop_stream_noop"}) =>
              /\ UNCHANGED << client, conn, leaked, is_streaming, keep_alive_task,
                              orphans, data_callback >>
              /\ pc' = "idle"
              /\ ev'.io = "none"
              /\ lastReturn' = [op |-> "stop_stream", res |-> "ok"]
        /\ lastReturn'.op = "stop_stream" => ~is_streaming' ]_vars

C10_Witness ==
    /\ ev.act = "stop_stream_noop"
    /\ lastReturn = [op |-> "stop_stream", res |-> "ok"]
    /\ Connected /\ conn.subscribed

\* C11: start_stream called while the session is Streaming is a no-op: it
\* returns at once, issues no transport operation (no subscribe, no activation
\* write), creates no keep-alive task and changes no session state.
C11_StartStreamNoopWhileStreaming ==
    [][ (pc = "idle" /\ Streaming /\ ev'.act = "start_stream") =>
            /\ ev'.io = "none"
            /\ pc' = "idle"
            /\ UNCHANGED << session, conn, orphans >> ]_vars

\* C12: fetch_history succeeds only in Streaming: called in Disconnected or
\* Authenticated it raises NotConnectedError and writes nothing; called in
\* Streaming it writes the fetch-history command with response.
C12_FetchHistoryOnlyWhileStreaming ==
    [][ (pc = "idle" /\ ev'.act = "fetch_history") =>
            IF Streaming
            THEN ev'.io = "fetch_write"
            ELSE /\ ev'.io = "none"
                 /\ lastReturn' = [op |-> "fetch_history", res |-> "NotConnectedError"] ]_vars

\* C12 amended: fetch_history needs an open connection, streaming or not.
\* Called without one it raises NotConnectedError and writes nothing; called
\* with one (Authenticated or Streaming) it writes the fetch-history command
\* with response and returns when that write completes; it changes no session
\* state.
C12_FetchHistoryWhileConnected ==
    [][ /\ (pc = "idle" /\ ev'.act = "fetch_history") =>
              /\ IF Connected
                 THEN ev'.io = "fetch_write" /\ pc' = "fetch"
                 ELSE /\ ev'.io = "none"
                      /\ pc' = "idle"
                      /\ lastReturn' = [op |-> "fetch_history", res |-> "NotConnectedError"]
              /\ UNCHANGED << session, conn >>
        /\ (pc = "fetch" /\ pc' = "idle") =>
              /\ ev'.io = "none"
              /\ lastReturn'.op = "fetch_history"
              /\ lastReturn'.res \in {"ok", "TransportError"}
              /\ UNCHANGED << session, conn >>
        /\ (lastReturn'.op = "fetch_history" /\ lastReturn'.res = "ok") =>
              (pc = "fetch" \/ UNCHANGED lastReturn) ]_vars

\* fetch_history, called on a session that never streamed, has written the command
C12_Witness ==
    /\ ev.act = "fetch_history_written"
    /\ lastReturn = [op |-> "fetch_history", res |-> "ok"]
    /\ Authenticated
    /\ data_callback = "None"

\* C13: read_battery, start_stream and fetch_history called while the session
\* holds no open transport connection raise NotConnectedError, issue no
\* transport operation and leave the streaming flag, the observer and the
\* keep-alive task as they were.
C13_NotConnectedRefused ==
    [][ (pc = "idle" /\ ~Connected
            /\ ev'.act \in {"read_battery", "start_stream", "fetch_history"}) =>
            /\ ev'.io = "none"
            /\ pc' = "idle"
            /\ lastReturn' = [op |-> ev'.act, res |-> "NotConnectedError"]
            /\ UNCHANGED << is_streaming, data_callback, keep_alive_task, orphans >> ]_vars

\* start_stream was refused on a session whose link dropped while it streamed
C13_Witness ==
    /\ ev.act = "start_stream"
    /\ lastReturn = [op |-> "start_stream", res |-> "NotConnectedError"]
    /\ is_streaming
    /\ keep_alive_task \in TaskPcs
    /\ data_callback # "None"

\* the little-endian IEEE-754 single-precision word of the float v
pack_f(v) ==
    << v.mantissa % 256,
       (v.mantissa \div 256) % 256,
       (v.exponent % 2) * 128 + v.mantissa \div 65536,
       v.sign * 128 + v.exponent \div 2 >>

\* the four bytes w encode the float v, little-endian: v is a float, and w is
\* its word, or a NaN word (all exponent bits set, fraction not zero) if v is nan
Encodes(w, v) ==
    /\ ~v.none
    /\ v.sign \in 0..1 /\ v.exponent \in 0..255 /\ v.mantissa \in 0..8388607
    /\ IF v = NaN
       THEN /\ w[4] % 128 = 127 /\ w[3] >= 128
            /\ (w[3] > 128 \/ w[2] > 0 \/ w[1] > 0)
       ELSE pack_f(v) = w

\* C14: the observer calls made for a notification depend on its length only:
\* 20 bytes give exactly one call, tagged live, with the float decoded from
\* bytes 8..11; more than 20 bytes give exactly one call, tagged history, with
\* the bytes as delivered; fewer than 20 bytes give no call.
C14_DispatchByLength ==
    ev.act = "notification_handler" =>
        IF Len(ev.data) = LIVE_DATA_PACKET_SIZE
        THEN /\ Len(ev.calls) = 1
             /\ ev.calls[1].kind = "live"
             /\ ev.calls[1].obs = data_callback
             /\ Encodes(SubSeq(ev.data, 9, 12), ev.calls[1].pm)
        ELSE IF Len(ev.data) > LIVE_DATA_PACKET_SIZE
        THEN /\ Len(ev.calls) = 1
             /\ ev.calls[1].kind = "history"
             /\ ev.calls[1].obs = data_callback
             /\ ev.calls[1].raw = ev.data
        ELSE ev.calls = << >>

\* a 20-byte notification has been dispatched as the live reading 35.5
C14_Witness ==
    /\ ev.act = "notification_handler"
    /\ Len(ev.data) = LIVE_DATA_PACKET_SIZE
    /\ Len(ev.calls) = 1
    /\ ev.calls[1].pm = [none |-> FALSE, sign |-> 0, exponent |-> 132, mantissa |-> 917504]

\* the observer call c is the one made for the notification d
CallFor(c, d) ==
    IF Len(d) = LIVE_DATA_PACKET_SIZE
    THEN c.kind = "live" /\ Encodes(SubSeq(d, 9, 12), c.pm)
    ELSE c.kind = "history" /\ c.raw = d

\* a notification long enough to be dispatched
Dispatched(d) == Len(d) >= LIVE_DATA_PACKET_SIZE

\* C15: at every moment the observer calls made so far are, one for one and
\* in order, the notifications of at least 20 bytes delivered so far: none is
\* reordered, duplicated, merged with another or held back, whatever
\* keep-alive and caller steps come between two deliveries.
C15_DispatchInDeliveryOrder ==
    history.on =>
        LET due == SelectSeq(history.delivered, Dispatched)
        IN /\ Len(history.calls) = Len(due)
           /\ \A i \in 1..Len(due) : CallFor(history.calls[i], due[i])

\* a history block, then a live reading, were dispatched to two observers: a
\* start_stream call came between the two deliveries
C15_Witness ==
    /\ history.on
    /\ Len(history.delivered) >= 2
    /\ Len(history.calls) >= 2
    /\ history.calls[1].kind = "history"
    /\ history.calls[2].kind = "live"
    /\ history.calls[1].obs # history.calls[2].obs

\* C16: a notification delivered while the streaming flag is false reaches
\* the registered observer exactly as it does while the flag is true: one call
\* for every notification of at least 20 bytes, tagged and filled by its length.
C16_DispatchIgnoresFlag ==
    (ev.act = "notification_handler" /\ ~is_streaming /\ Dispatched(ev.data)) =>
        /\ Len(ev.calls) = 1
        /\ ev.calls[1].obs = data_callback
        /\ CallFor(ev.calls[1], ev.data)

\* a notification was dispatched on a connected session whose flag a keep-alive
\* task had cleared
C16_Witness ==
    /\ ev.act = "notification_handler"
    /\ ~is_streaming
    /\ Connected
    /\ keep_alive_task = "done"
    /\ Len(ev.calls) = 1

\* C17: read_battery on a connected session issues one characteristic read and
\* nothing else; when the read completes it returns the first byte read, as an
\* integer; when the read fails it returns None and raises nothing; neither
\* step changes the flag, the task, the observer or the connection.
C17_ReadBattery ==
    [][ /\ (pc = "idle" /\ Connected /\ ev'.act = "read_battery") =>
              /\ ev'.io = "battery_read"
              /\ pc' = "battery"
              /\ UNCHANGED << session, conn, leaked, orphans >>
        /\ (pc = "battery" /\ pc' # "battery") =>
              /\ pc' = "idle"
              /\ ev'.io = "none"
              /\ lastReturn'.op = "read_battery"
              /\ ev'.act = "read_battery_read" =>
                    /\ lastReturn'.res = "level"
                    /\ ev'.val = ev'.data[1]
              /\ ev'.act # "read_battery_read" =>
                    /\ lastReturn'.res = "None"
                    /\ ev'.val = NoValue
              /\ UNCHANGED << session, conn, leaked, orphans >> ]_vars

\* read_battery has returned the byte read, 87, on a streaming session
C17_Witness ==
    /\ ev.act = "read_battery_read"
    /\ lastReturn = [op |-> "read_battery", res |-> "level"]
    /\ ev.data = <<87>>
    /\ ev.val = 87
    /\ Streaming

\* C18: for every 20-byte input decode_live_pm_value returns the float whose
\* little-endian IEEE-754 word is bytes 8..11, the same for every input that
\* agrees on those four bytes; for every input of another length it returns None.
C18_DecodeLive ==
    codec.didLive =>
        IF Len(codec.data) = 20
        THEN /\ Encodes(SubSeq(codec.data, 9, 12), codec.live)
             /\ \A d \in CodecInputs :
                    (Len(d) = 20 /\ SubSeq(d, 9, 12) = SubSeq(codec.data, 9, 12)) =>
                        decode_live_pm_value(d) = codec.live
        ELSE codec.live.none

\* 35.5 was decoded from a 20-byte packet whose other bytes are not zero
C18_Witness ==
    /\ codec.didLive
    /\ Len(codec.data) = 20
    /\ codec.data[1] = 8
    /\ codec.live = [none |-> FALSE, sign |-> 0, exponent |-> 132, mantissa |-> 917504]

\* the epoch seconds of the datetime t, as the two 16-bit halves of a 32-bit
\* number (a day is 65536 + 20864 seconds)
EpochSeconds(t) ==
    LET x == t.days * 20864 + t.secs
    IN [hi |-> t.days + x \div 65536, lo |-> x % 65536]

C20_FailedStartNotStreaming ==
    ev.act \in {"subscribe_failed", "activate_failed"} =>
        /\ ~is_streaming
        /\ LiveTasks = 0

\* C21: stop_stream on a streaming session works in this order: the flag is
\* cleared, the keep-alive task is cancelled and has finished, and only then is
\* the unsubscribe issued; whether the unsubscribe succeeds or fails, the call
\* returns with the flag false and no keep-alive task alive.
C21_StopStreamOrder ==
    /\ ev.io = "unsubscribe" => (~is_streaming /\ LiveTasks = 0)
    /\ (ev.act \in {"stop_stream_unsubscribed", "unsubscribe_failed"}
            /\ lastReturn.op = "stop_stream") =>
          (~is_streaming /\ keep_alive_task = "None" /\ LiveTasks = 0)

C23_KeepAliveRecurs ==
    <>[]Streaming => []<><<ev'.io = "keep_alive_write">>_vars

\* C24: a keep-alive task finishes only because stop_stream ended it (by
\* cancelling it, or by clearing the flag in a teardown under way or just
\* returned) or because its own write failed: no task finishes by finding the
\* flag cleared by anything else.
C24_TaskEndsByCancelOrFailure ==
    [][ (LiveTasks' < LiveTasks) =>
            \/ ev'.act = "keep_alive_cancelled" /\ pc = "await_task"
            \/ ev'.act = "keep_alive_failed"
            \/ /\ ev'.act = "keep_alive_exit"
               /\ \/ op \in {"stop_stream", "disconnect"}
                  \/ lastReturn.op \in {"stop_stream", "disconnect"} ]_vars

\* C25: when tasks are scheduled and every transport operation of a teardown
\* completes or fails, every stop_stream and every disconnect call comes to an
\* end, wherever in its loop the keep-alive task is when the call starts.
C25_TeardownTerminates ==
    (op \in {"stop_stream", "disconnect"}) ~> (op = "none")

\* stop_stream is waiting for a keep-alive task that has a write in flight
C25_Witness ==
    /\ op = "stop_stream"
    /\ pc = "await_task"
    /\ keep_alive_task = "writing"
    /\ ~is_streaming

\* C26: on one connection subscribe and unsubscribe alternate, subscribe first:
\* the session issues no subscribe for the data channel of a connection on
\* which its previous subscription is still active.
C26_SubscribeAlternates ==
    [][ ev'.io = "subscribe" => ~conn.subscribed ]_vars

\* C27: every subscribe, activation write, keep-alive write, fetch-history
\* write and battery read is issued on a connection on which the confirmed
\* write of the authentication key has succeeded.
C27_AuthenticatedBeforeUse ==
    [][ ev'.io \in {"subscribe", "activate_write", "keep_alive_write", "fetch_write",
                    "battery_read"} => conn.authed ]_vars

\* C28: once the connection is lost, a stop_stream or disconnect call issues
\* no transport operation (no unsubscribe, no disconnect), and it returns
\* normally with the flag false and no keep-alive task alive.
C28_TeardownAfterConnectionLoss ==
    [][ /\ (~Connected /\ ev'.act \in {"stop_stream", "stop_stream_noop",
                                       "stop_stream_awaited", "disconnect"}) =>
              ev'.io = "none"
        /\ (~Connected /\ pc' = "idle" /\ lastReturn' # lastReturn
              /\ lastReturn'.op \in {"stop_stream", "disconnect"}) =>
              /\ lastReturn'.res = "ok"
              /\ ~is_streaming'
              /\ LiveTasks' = 0 ]_vars

\* C29: disconnect called on a session that is Disconnected (never connected,
\* or closed by an earlier disconnect) issues no transport operation, changes
\* no session state and returns normally; and the session is Disconnected
\* whenever disconnect has returned normally, so a second call is that no-op.
C29_DisconnectIdempotent ==
    [][ /\ (pc = "idle" /\ Disconnected /\ ev'.act = "disconnect") =>
              /\ ev'.io = "none"
              /\ pc' = "idle"
              /\ lastReturn' = [op |-> "disconnect", res |-> "ok"]
              /\ UNCHANGED << session, conn, leaked, orphans >>
        /\ lastReturn' = [op |-> "disconnect", res |-> "ok"] => Disconnected' ]_vars

\* a second disconnect has returned at once on a session that had streamed and
\* was closed by the first
C29_Witness ==
    /\ ev.act = "disconnect"
    /\ pc = "idle"
    /\ lastReturn = [op |-> "disconnect", res |-> "ok"]
    /\ client = "BleakClient"
    /\ data_callback # "None"
    /\ Disconnected
====
